---------------------------- MODULE Spec2Model ----------------------------
(***************************************************************************)
(* A model of lltypes/core.py: the type-descriptor classes, the            *)
(* endianness/format constructors, the array-descriptor builders and the   *)
(* translation methods to_ctypes, to_dtype and the name accessor.          *)
(*                                                                         *)
(* Python objects are records whose domain is the object's attribute set   *)
(* plus "cls" (its class).  A call either returns a value or raises: the   *)
(* outcome of a call is a record [exc, val] with exc = "" on return.       *)
(***************************************************************************)
EXTENDS Integers, Sequences, FiniteSets, TLC

VARIABLES cur,    \* the descriptor the caller holds (None before any)
          flds,   \* descriptors set aside to become fields / options
          made,   \* the last constructor or builder call and its outcome
          out,    \* the last translation call and its outcome
          first,  \* the first to_ctypes call since the last construction
          calls   \* to_ctypes calls since the last construction

vars == <<cur, flds, made, out, first, calls>>

(***************************************************************************)
(* Bounds of the exploration.                                              *)
(***************************************************************************)
MaxNodes == 3   \* descriptor nodes held by the caller (cur and flds)
MaxLen   == 2   \* Sequence lengths and array dimensions are 0..MaxLen
MaxCalls == 2   \* to_ctypes calls between two constructions

Names == {"a", "b"}
Lengths == 0 .. MaxLen

(***************************************************************************)
(* Values and call outcomes.                                               *)
(***************************************************************************)
None == [cls |-> "NoneType"]
Str(s) == [cls |-> "str", s |-> s]
FnRef(f) == [cls |-> "function", fn |-> f]

Return(v) == [exc |-> "", val |-> v]
Raise(kind, arg) == [exc |-> kind, val |-> arg]
Raised(r) == r.exc # ""

HasAttr(t, a) == a \in DOMAIN t
NoAttr(t, a) == Raise("AttributeError", [cls |-> "str", s |-> a, of |-> t.cls])

(***************************************************************************)
(* The classes' constructors (__init__): the attributes each one sets.     *)
(***************************************************************************)
Struct(name, fields) == [cls |-> "Struct", name |-> name, fields |-> fields]

Field(name, endianness, format) ==
    [cls |-> "Field", name |-> name, endianness |-> endianness, format |-> format]

UBInt8(name) == Field(name, ">", "B")
UBInt16(name) == Field(name, ">", "H")
UBInt32(name) == Field(name, ">", "L")
UBInt64(name) == Field(name, ">", "Q")
SBInt8(name) == Field(name, ">", "b")
SBInt16(name) == Field(name, ">", "h")
SBInt32(name) == Field(name, ">", "l")
SBInt64(name) == Field(name, ">", "q")

ULInt8(name) == Field(name, "<", "B")
ULInt16(name) == Field(name, "<", "H")
ULInt32(name) == Field(name, "<", "L")
ULInt64(name) == Field(name, "<", "Q")
\* A faulty SLInt8: the unsigned code, colliding with ULInt8.
SLInt8_unsigned(name) == Field(name, "<", "B")
SLInt8(name) == Field(name, "<", "b")
SLInt16(name) == Field(name, "<", "h")
SLInt32(name) == Field(name, "<", "l")
SLInt64(name) == Field(name, "<", "q")

UNInt8(name) == Field(name, "=", "B")
UNInt16(name) == Field(name, "=", "H")
UNInt32(name) == Field(name, "=", "L")
UNInt64(name) == Field(name, "=", "Q")
SNInt8(name) == Field(name, "=", "b")
SNInt16(name) == Field(name, "=", "h")
SNInt32(name) == Field(name, "=", "l")
SNInt64(name) == Field(name, "=", "q")

BFloat32(name) == Field(name, ">", "f")
LFloat32(name) == Field(name, "<", "f")
NFloat32(name) == Field(name, "=", "f")
BFloat64(name) == Field(name, ">", "d")
LFloat64(name) == Field(name, "<", "d")
NFloat64(name) == Field(name, "=", "d")

Bool(name) == Field(name, "=", "?")

Byte(name) == UBInt8(name)
SChar(name) == SLInt8(name)
UChar(name) == ULInt8(name)
Char(name) == SChar(name)

Enum(name) == [cls |-> "Enum", name |-> name, idx |-> Byte(name)]

Union(name, tag, options) ==
    [cls |-> "Union", name |-> name, tag |-> tag, options |-> options]

\* Vector.__init__ stores options only: neither width nor a name.
Vector(width, options) == [cls |-> "Vector", options |-> options]

Pointer(ty) == [cls |-> "Pointer", ty |-> ty]

Sequence(name, ty, length) ==
    [cls |-> "Sequence", name |-> name, ty |-> ty, length |-> length]

VariableString(name, ptr, length) ==
    [cls |-> "VariableString", name |-> name, ptr |-> ptr, length |-> length]

TerminatedString(name, terminator) ==
    [cls |-> "TerminatedString", name |-> name, terminator |-> terminator]

(***************************************************************************)
(* Calling a class with positional arguments: Python binds them to the     *)
(* parameters of __init__ and raises TypeError when the count is wrong.    *)
(***************************************************************************)
ArityError(c) == Raise("TypeError", [cls |-> "str", s |-> "__init__", of |-> c])

Sequence_call(args) ==
    IF Len(args) = 3
    THEN Return(Sequence(args[1], args[2], args[3]))
    ELSE ArityError("Sequence")

TerminatedString_call(args) ==
    IF Len(args) = 2
    THEN Return(TerminatedString(args[1], args[2]))
    ELSE ArityError("TerminatedString")

FixedString(length) == Sequence_call(<<FnRef("Char"), length>>)

CString == TerminatedString_call(<<"0x00">>)

(***************************************************************************)
(* The named constructors as first-class functions: calling one by name.   *)
(***************************************************************************)
IntCtorNames ==
    {"UBInt8", "UBInt16", "UBInt32", "UBInt64", "SBInt8", "SBInt16", "SBInt32", "SBInt64",
     "ULInt8", "ULInt16", "ULInt32", "ULInt64", "SLInt8", "SLInt16", "SLInt32", "SLInt64",
     "UNInt8", "UNInt16", "UNInt32", "UNInt64", "SNInt8", "SNInt16", "SNInt32", "SNInt64"}

CtorNames ==
    IntCtorNames \cup
    {"BFloat32", "LFloat32", "NFloat32", "BFloat64", "LFloat64", "NFloat64",
     "Bool", "Byte", "SChar", "UChar", "Char"}

CallCtor(c, name) ==
    CASE c = "UBInt8" -> UBInt8(name)   [] c = "UBInt16" -> UBInt16(name)
      [] c = "UBInt32" -> UBInt32(name) [] c = "UBInt64" -> UBInt64(name)
      [] c = "SBInt8" -> SBInt8(name)   [] c = "SBInt16" -> SBInt16(name)
      [] c = "SBInt32" -> SBInt32(name) [] c = "SBInt64" -> SBInt64(name)
      [] c = "ULInt8" -> ULInt8(name)   [] c = "ULInt16" -> ULInt16(name)
      [] c = "ULInt32" -> ULInt32(name) [] c = "ULInt64" -> ULInt64(name)
      [] c = "SLInt8" -> SLInt8(name)   [] c = "SLInt16" -> SLInt16(name)
      [] c = "SLInt32" -> SLInt32(name) [] c = "SLInt64" -> SLInt64(name)
      [] c = "UNInt8" -> UNInt8(name)   [] c = "UNInt16" -> UNInt16(name)
      [] c = "UNInt32" -> UNInt32(name) [] c = "UNInt64" -> UNInt64(name)
      [] c = "SNInt8" -> SNInt8(name)   [] c = "SNInt16" -> SNInt16(name)
      [] c = "SNInt32" -> SNInt32(name) [] c = "SNInt64" -> SNInt64(name)
      [] c = "BFloat32" -> BFloat32(name) [] c = "LFloat32" -> LFloat32(name)
      [] c = "NFloat32" -> NFloat32(name) [] c = "BFloat64" -> BFloat64(name)
      [] c = "LFloat64" -> LFloat64(name) [] c = "NFloat64" -> NFloat64(name)
      [] c = "Bool" -> Bool(name)   [] c = "Byte" -> Byte(name)
      [] c = "SChar" -> SChar(name) [] c = "UChar" -> UChar(name)
      [] c = "Char" -> Char(name)

(***************************************************************************)
(* The array-descriptor builders.  The name argument is not used.          *)
(***************************************************************************)
Array_C(name, ty, nd) ==
    Struct("Array_C", <<Pointer(CallCtor(ty, "data")),
                        Sequence("shape", UNInt8(""), nd)>>)

Array_F(name, ty, nd) ==
    Struct("Array_F", <<Pointer(CallCtor(ty, "data")),
                        Sequence("shape", UNInt8(""), nd)>>)

\* A faulty Array_S: the stride sequence left out.
Array_S_nostride(name, ty, nd) ==
    Struct("Array_S", <<Pointer(CallCtor(ty, "data")),
                        Sequence("shape", UNInt8(""), nd)>>)

Array_S(name, ty, nd) ==
    Struct("Array_S", <<Pointer(CallCtor(ty, "data")),
                        Sequence("shape", UNInt8(""), nd),
                        Sequence("stride", UNInt8(""), nd)>>)

(***************************************************************************)
(* codes.format_ctypes, the format table: a mapping from one-letter format *)
(* codes to native scalar kinds.  Subscripting it with an absent code      *)
(* raises KeyError, as any Python mapping does.                            *)
(***************************************************************************)
FormatCodes == {"B", "H", "L", "Q", "b", "h", "l", "q", "f", "d", "?"}

scalar_repr(code) ==
    [kind |-> "scalar",
     code |-> code,
     byte_width |-> CASE code \in {"B", "b", "?"} -> 1
                      [] code \in {"H", "h"} -> 2
                      [] code \in {"L", "l", "f"} -> 4
                      [] OTHER -> 8,
     numeric_kind |-> CASE code \in {"B", "H", "L", "Q"} -> "unsigned"
                        [] code \in {"b", "h", "l", "q"} -> "signed"
                        [] code \in {"f", "d"} -> "float"
                        [] OTHER -> "bool"]

format_ctypes_getitem(code) ==
    IF code \in FormatCodes
    THEN Return(scalar_repr(code))
    ELSE Raise("KeyError", Str(code))

(***************************************************************************)
(* The name attribute: an instance attribute where __init__ sets one, a    *)
(* property delegating to the pointee on Pointer, absent otherwise.        *)
(***************************************************************************)
RECURSIVE GetName(_)
RECURSIVE Pointer_name(_)

Pointer_name(self) == GetName(self.ty)

GetName(t) ==
    IF t.cls = "Pointer" THEN Pointer_name(t)
    ELSE IF HasAttr(t, "name") THEN Return(Str(t.name))
    ELSE NoAttr(t, "name")

(***************************************************************************)
(* to_ctypes: the native layout.                                           *)
(***************************************************************************)
RECURSIVE to_ctypes(_)
RECURSIVE StructMembers(_, _, _)
RECURSIVE Struct_to_ctypes(_)
RECURSIVE Pointer_to_ctypes(_)
RECURSIVE Sequence_to_ctypes(_)

\* A faulty Type.to_ctypes: the exception of to_llvm.
Type_to_ctypes_llvm(self) == Raise("NoLlvmMapping", self)

Type_to_ctypes(self) == Raise("NoCtypeMapping", self)

\* The list comprehension of Struct.to_ctypes from field i on: each element
\* evaluates field.name, then field.to_ctypes(); the first raise ends it.
StructMembers(fields, i, acc) ==
    IF i > Len(fields) THEN Return([cls |-> "list", items |-> acc])
    ELSE LET n == GetName(fields[i]) IN
         IF Raised(n) THEN n
         ELSE LET c == to_ctypes(fields[i]) IN
              IF Raised(c) THEN c
              ELSE StructMembers(fields, i + 1,
                                 Append(acc, [name |-> n.val.s, type |-> c.val]))

\* A faulty Struct.to_ctypes: the members in reverse order.
Struct_to_ctypes_reversed(self) ==
    LET m == StructMembers(self.fields, 1, <<>>) IN
    IF Raised(m) THEN m
    ELSE LET n == Len(m.val.items) IN
         Return([kind |-> "Structure", name |-> self.name,
                 fields |-> [i \in 1 .. n |-> m.val.items[n + 1 - i]]])

Struct_to_ctypes(self) ==
    LET m == StructMembers(self.fields, 1, <<>>) IN
    IF Raised(m) THEN m
    ELSE Return([kind |-> "Structure", name |-> self.name, fields |-> m.val.items])

Field_to_ctypes(self) == format_ctypes_getitem(self.format)

Pointer_to_ctypes(self) ==
    LET c == to_ctypes(self.ty) IN
    IF Raised(c) THEN c ELSE Return([kind |-> "POINTER", to |-> c.val])

\* A faulty Sequence.to_ctypes: an empty array refused.
Sequence_to_ctypes_nonempty(self) ==
    LET c == to_ctypes(self.ty) IN
    IF Raised(c) THEN c
    ELSE IF self.length <= 0 THEN Raise("ValueError", Str("length"))
    ELSE Return([kind |-> "Array", elem |-> c.val, len |-> self.length])

\* ctypes refuses a negative array length with ValueError.
Sequence_to_ctypes(self) ==
    LET c == to_ctypes(self.ty) IN
    IF Raised(c) THEN c
    ELSE IF self.length < 0 THEN Raise("ValueError", Str("length"))
    ELSE Return([kind |-> "Array", elem |-> c.val, len |-> self.length])

to_ctypes(t) ==
    CASE t.cls = "Struct" -> Struct_to_ctypes(t)
      [] t.cls = "Field" -> Field_to_ctypes(t)
      [] t.cls = "Pointer" -> Pointer_to_ctypes(t)
      [] t.cls = "Sequence" -> Sequence_to_ctypes(t)
      [] OTHER -> Type_to_ctypes(t)

(***************************************************************************)
(* to_dtype: the element descriptor.                                       *)
(***************************************************************************)
Type_to_dtype(self) == Raise("NoDtypeMapping", self)

\* Field.to_dtype reads self.endianess, an attribute __init__ never sets.
Field_to_dtype(self) ==
    IF ~HasAttr(self, "endianess") THEN NoAttr(self, "endianess")
    ELSE Return([cls |-> "dtype", str |-> self["endianess"] \o self.format])

to_dtype(t) ==
    IF t.cls = "Field" THEN Field_to_dtype(t) ELSE Type_to_dtype(t)

(***************************************************************************)
(* The caller: it constructs descriptors and asks for translations.        *)
(***************************************************************************)
TreeCtors == {"UBInt8", "SLInt32"}       \* constructors of the trees' scalars
TypeNames == {"s"}                       \* names of the other descriptors
RawFormats == {"Z"}                      \* a code the format table lacks
Widths == {4}                            \* Vector widths

RECURSIVE Weight(_)
RECURSIVE SumWeight(_, _)

SumWeight(ts, i) == IF i > Len(ts) THEN 0 ELSE Weight(ts[i]) + SumWeight(ts, i + 1)

\* The size of a descriptor the caller assembled: the nodes of its walk.
Weight(t) ==
    CASE t.cls = "NoneType" -> 0
      [] t.cls = "Struct" -> 1 + SumWeight(t.fields, 1)
      [] t.cls \in {"Pointer", "Sequence"} -> 1 + Weight(t.ty)
      [] OTHER -> 1

Targets == IF cur = None THEN {} ELSE {cur}

NoCall == [op |-> "", on |-> None, res |-> Return(None)]
Call(op, t, r) == [op |-> op, on |-> t, res |-> r]
Made(fn, name, ty, n, r) == [fn |-> fn, name |-> name, ty |-> ty, n |-> n, res |-> r]

Init ==
    /\ cur = None
    /\ flds = <<>>
    /\ made = Made("", "", "", 0, Return(None))
    /\ out = NoCall
    /\ first = NoCall
    /\ calls = 0

\* A construction ends the history of calls on the descriptor held before.
Fresh == out' = NoCall /\ first' = NoCall /\ calls' = 0

Construct(fn, name, ty, n, r) ==
    /\ cur' = IF Raised(r) THEN None ELSE r.val
    /\ made' = Made(fn, name, ty, n, r)
    /\ Fresh

NewField(ctors) ==
    \E c \in ctors, name \in Names :
        /\ SumWeight(flds, 1) + 1 <= MaxNodes
        /\ Construct(c, name, "", 0, Return(CallCtor(c, name)))
        /\ UNCHANGED flds

NewRawField ==
    \E name \in TypeNames, f \in RawFormats :
        /\ SumWeight(flds, 1) + 1 <= MaxNodes
        /\ Construct("Field", name, f, 0, Return(Field(name, "=", f)))
        /\ UNCHANGED flds

NewEnum ==
    \E name \in TypeNames :
        /\ SumWeight(flds, 1) + 1 <= MaxNodes
        /\ Construct("Enum", name, "", 0, Return(Enum(name)))
        /\ UNCHANGED flds

NewTerminatedString ==
    \E name \in TypeNames :
        /\ SumWeight(flds, 1) + 1 <= MaxNodes
        /\ Construct("TerminatedString", name, "", 0,
                     TerminatedString_call(<<name, "0x00">>))
        /\ UNCHANGED flds

NewVariableString ==
    \E name \in TypeNames :
        /\ SumWeight(flds, 1) + 1 <= MaxNodes
        /\ Construct("VariableString", name, "", 0,
                     Return(VariableString(name, Pointer(Char("p")), UBInt16("len"))))
        /\ UNCHANGED flds

NewUnion ==
    \E name \in TypeNames :
        /\ SumWeight(flds, 1) + 1 <= MaxNodes
        /\ Construct("Union", name, "", 0,
                     Return(Union(name, Byte("tag"), <<UBInt8("a"), SLInt32("b")>>)))
        /\ UNCHANGED flds

NewVector ==
    \E w \in Widths :
        /\ SumWeight(flds, 1) + 1 <= MaxNodes
        /\ Construct("Vector", "", "", w,
                     Return(Vector(w, <<NFloat32("x"), NFloat32("y")>>)))
        /\ UNCHANGED flds

NewPointer ==
    /\ cur # None
    /\ SumWeight(flds, 1) + Weight(cur) + 1 <= MaxNodes
    /\ Construct("Pointer", "", "", 0, Return(Pointer(cur)))
    /\ UNCHANGED flds

NewSequence ==
    \E name \in TypeNames, n \in Lengths :
        /\ cur # None
        /\ SumWeight(flds, 1) + Weight(cur) + 1 <= MaxNodes
        /\ Construct("Sequence", name, "", n, Sequence_call(<<name, cur, n>>))
        /\ UNCHANGED flds

\* The caller sets the descriptor aside, to be a field of a later Struct.
PushField ==
    /\ cur # None
    /\ flds' = Append(flds, cur)
    /\ cur' = None
    /\ UNCHANGED made
    /\ Fresh

NewStruct ==
    \E name \in TypeNames :
        /\ SumWeight(flds, 1) + 1 <= MaxNodes
        /\ Construct("Struct", name, "", 0, Return(Struct(name, flds)))
        /\ flds' = <<>>

NewFixedString ==
    \E n \in Lengths :
        /\ Construct("FixedString", "", "", n, FixedString(n))
        /\ UNCHANGED flds

NewCString ==
    /\ Construct("CString", "", "", 0, CString)
    /\ UNCHANGED flds

NewArray_C ==
    \E name \in Names, ty \in CtorNames, nd \in Lengths :
        /\ Construct("Array_C", name, ty, nd, Return(Array_C(name, ty, nd)))
        /\ UNCHANGED flds

NewArray_F ==
    \E name \in Names, ty \in CtorNames, nd \in Lengths :
        /\ Construct("Array_F", name, ty, nd, Return(Array_F(name, ty, nd)))
        /\ UNCHANGED flds

NewArray_S ==
    \E name \in Names, ty \in CtorNames, nd \in Lengths :
        /\ Construct("Array_S", name, ty, nd, Return(Array_S(name, ty, nd)))
        /\ UNCHANGED flds

\* calls counts the to_ctypes calls, the ones the history keeps.
Record(c) ==
    /\ out' = c
    /\ first' = IF first = NoCall /\ c.op = "to_ctypes" THEN c ELSE first
    /\ calls' = IF c.op = "to_ctypes" THEN calls + 1 ELSE calls
    /\ UNCHANGED <<cur, flds, made>>

CallToCtypes ==
    \E t \in Targets :
        /\ calls < MaxCalls
        /\ Record(Call("to_ctypes", t, to_ctypes(t)))

CallToDtype == \E t \in Targets : Record(Call("to_dtype", t, to_dtype(t)))

CallName == \E t \in Targets : Record(Call("name", t, GetName(t)))

\* Descriptor trees built bottom-up and translated.
Next ==
    \/ NewField(TreeCtors)
    \/ NewRawField
    \/ NewEnum
    \/ NewTerminatedString
    \/ NewVariableString
    \/ NewUnion
    \/ NewVector
    \/ NewPointer
    \/ NewSequence
    \/ PushField
    \/ NewStruct
    \/ CallToCtypes
    \/ CallToDtype
    \/ CallName

Spec == Init /\ [][Next]_vars

\* The named constructors, the string helpers and the array builders.
NextBuild ==
    \/ NewField(CtorNames)
    \/ NewFixedString
    \/ NewCString
    \/ NewArray_C
    \/ NewArray_F
    \/ NewArray_S
    \/ CallToCtypes
    \/ CallToDtype
    \/ CallName

SpecBuild == Init /\ [][NextBuild]_vars

(***************************************************************************)
(* Vocabulary of the properties.                                           *)
(***************************************************************************)
Unsupported == {"Enum", "Union", "Vector", "VariableString", "TerminatedString"}

RECURSIVE HasNative(_)
\* The descriptors for which a native layout is defined.
HasNative(t) ==
    CASE t.cls = "Field" -> t.format \in FormatCodes
      [] t.cls = "Struct" -> \A i \in DOMAIN t.fields : HasNative(t.fields[i])
      [] t.cls \in {"Pointer", "Sequence"} -> HasNative(t.ty)
      [] OTHER -> FALSE

RECURSIVE FirstUnmapped(_)
\* The first node, in the order of the walk, that has no native layout.
FirstUnmapped(t) ==
    CASE t.cls = "Struct" ->
           LET bad == {i \in DOMAIN t.fields : ~HasNative(t.fields[i])}
               i == CHOOSE j \in bad : \A k \in bad : j <= k
           IN FirstUnmapped(t.fields[i])
      [] t.cls \in {"Pointer", "Sequence"} -> FirstUnmapped(t.ty)
      [] OTHER -> t

ToCtypesOn(c, classes) == c.op = "to_ctypes" /\ c.on.cls \in classes

\* A shape or stride sequence: n unsigned 8-bit native-endian cells.
IsCells(q, name, n) ==
    /\ q.cls = "Sequence"
    /\ q.name = name
    /\ q.length = n
    /\ q.ty.cls = "Field"
    /\ q.ty.endianness = "="
    /\ q.ty.format = "B"

IntCtorName(sign, end, width) == sign \o end \o "Int" \o ToString(width)
Pair(f) == <<f.endianness, f.format>>

(***************************************************************************)
(* C1: to_ctypes on a Struct all of whose fields have a native layout      *)
(* returns an aggregate with one member per declared field, member i       *)
(* carrying the name and the layout of field i, in declared order, with    *)
(* duplicate names kept.                                                   *)
(***************************************************************************)
C1_StructMembersInOrder ==
    (/\ ToCtypesOn(out, {"Struct"})
     /\ \A i \in DOMAIN out.on.fields : HasNative(out.on.fields[i]))
    => /\ ~Raised(out.res)
       /\ out.res.val.kind = "Structure"
       /\ Len(out.res.val.fields) = Len(out.on.fields)
       /\ \A i \in DOMAIN out.on.fields :
             /\ ~Raised(GetName(out.on.fields[i]))
             /\ ~Raised(to_ctypes(out.on.fields[i]))
             /\ out.res.val.fields[i] =
                   [name |-> GetName(out.on.fields[i]).val.s,
                    type |-> to_ctypes(out.on.fields[i]).val]

\* Two fields of one name and different layouts were translated.
C1_Witness ==
    /\ ToCtypesOn(out, {"Struct"})
    /\ Len(out.on.fields) = 2
    /\ \A i \in DOMAIN out.on.fields : out.on.fields[i].cls = "Field"
    /\ out.on.fields[1].name = out.on.fields[2].name
    /\ out.on.fields[1].format # out.on.fields[2].format
    /\ ~Raised(out.res)

(***************************************************************************)
(* C2: to_ctypes on a Struct, Sequence or Pointer whose subtree holds a    *)
(* node without native layout fails with exactly the NoCtypeMapping which  *)
(* that node raises, carrying that node.                                   *)
(***************************************************************************)
C2_SubnodeFailurePropagates ==
    (/\ ToCtypesOn(out, {"Struct", "Sequence", "Pointer"})
     /\ ~HasNative(out.on)
     /\ to_ctypes(FirstUnmapped(out.on)).exc = "NoCtypeMapping")
    => out.res = Raise("NoCtypeMapping", FirstUnmapped(out.on))

(***************************************************************************)
(* C3: to_ctypes on an Enum, Union, Vector, VariableString or              *)
(* TerminatedString fails with NoCtypeMapping carrying the node, on the    *)
(* first call and on every later call alike.                               *)
(***************************************************************************)
C3_UnsupportedAlwaysFails ==
    /\ ToCtypesOn(first, Unsupported) => first.res = Raise("NoCtypeMapping", first.on)
    /\ ToCtypesOn(out, Unsupported) =>
          /\ out.res = Raise("NoCtypeMapping", out.on)
          /\ first.on = out.on => first.res = out.res

\* A second to_ctypes call on the same Union.
C3_Witness ==
    /\ ToCtypesOn(out, {"Union"})
    /\ calls = 2
    /\ first.on = out.on

(***************************************************************************)
(* C4: to_ctypes on a Field whose format code the format table lacks fails *)
(* with NoCtypeMapping.                                                    *)
(***************************************************************************)
C4_UnknownFormatIsNoCtypeMapping ==
    (ToCtypesOn(out, {"Field"}) /\ out.on.format \notin FormatCodes)
    => out.res.exc = "NoCtypeMapping"

(***************************************************************************)
(* C5: to_dtype succeeds exactly on a Field, returning a descriptor fixed  *)
(* by the Field's (endianness, format) pair, and fails with NoDtypeMapping *)
(* on every other variant.                                                 *)
(***************************************************************************)
C5_DtypeExactlyOnFields ==
    out.op = "to_dtype" =>
        IF out.on.cls = "Field"
        THEN out.res = Return([cls |-> "dtype",
                               str |-> out.on.endianness \o out.on.format])
        ELSE out.res = Raise("NoDtypeMapping", out.on)

(***************************************************************************)
(* C6: the name of Pointer(t) is defined and is the name of t, for t of    *)
(* every variant, nested pointers included.                                *)
(***************************************************************************)
C6_PointerTransparent ==
    (out.op = "name" /\ out.on.cls = "Pointer")
    => /\ ~Raised(out.res)
       /\ out.res = GetName(out.on.ty)

(***************************************************************************)
(* C7: FixedString(n) returns a Sequence of length n whose element type is *)
(* a little-endian signed 8-bit Field.                                     *)
(***************************************************************************)
C7_FixedStringIsCharSequence ==
    made.fn = "FixedString"
    => /\ ~Raised(made.res)
       /\ made.res.val.cls = "Sequence"
       /\ made.res.val.length = made.n
       /\ made.res.val.ty.cls = "Field"
       /\ Pair(made.res.val.ty) = <<"<", "b">>

(***************************************************************************)
(* C8: Array_C and Array_F return a Struct of exactly two fields, a        *)
(* Pointer named "data" to ty("data") and a Sequence "shape" of ndim       *)
(* unsigned 8-bit native-endian cells; Array_S returns these two followed  *)
(* by a Sequence "stride" of the same length and cells.                    *)
(***************************************************************************)
C8_ArrayBuilderShape ==
    made.fn \in {"Array_C", "Array_F", "Array_S"}
    => /\ ~Raised(made.res)
       /\ made.res.val.cls = "Struct"
       /\ Len(made.res.val.fields) = (IF made.fn = "Array_S" THEN 3 ELSE 2)
       /\ made.res.val.fields[1].cls = "Pointer"
       /\ made.res.val.fields[1].ty = CallCtor(made.ty, "data")
       /\ GetName(made.res.val.fields[1]) = Return(Str("data"))
       /\ IsCells(made.res.val.fields[2], "shape", made.n)
       /\ made.fn = "Array_S" => IsCells(made.res.val.fields[3], "stride", made.n)

\* A strided array of two dimensions was built.
C8_Witness ==
    /\ made.fn = "Array_S"
    /\ made.ty = "SNInt8"
    /\ made.n = 2
    /\ cur = made.res.val

(***************************************************************************)
(* C9: every (signedness, endianness, width) triple has one named integer  *)
(* constructor; it returns a Field of the given name, and no two of the 24 *)
(* constructors yield the same (endianness, format) pair.                  *)
(***************************************************************************)
C9_IntegerConstructorsExhaustive ==
    /\ \A sign \in {"U", "S"}, end \in {"B", "L", "N"}, width \in {8, 16, 32, 64} :
          IntCtorName(sign, end, width) \in IntCtorNames
    /\ Cardinality(IntCtorNames) = 24
    /\ made.fn \in IntCtorNames
       => /\ ~Raised(made.res)
          /\ made.res.val.cls = "Field"
          /\ made.res.val.name = made.name
          /\ \A c \in IntCtorNames \ {made.fn} :
                Pair(CallCtor(c, made.name)) # Pair(made.res.val)

\* The little-endian signed 8-bit constructor was called.
C9_Witness ==
    /\ made.fn = "SLInt8"
    /\ made.name = "b"
    /\ cur = made.res.val

(***************************************************************************)
(* C10: to_ctypes on a Sequence of length n >= 0 whose element type has a  *)
(* native layout returns the repeated layout of n elements of that layout; *)
(* for n = 0 it returns the empty repetition and does not fail.            *)
(***************************************************************************)
C10_SequenceRepeatsElement ==
    (ToCtypesOn(out, {"Sequence"}) /\ out.on.length >= 0 /\ HasNative(out.on.ty))
    => /\ ~Raised(out.res)
       /\ ~Raised(to_ctypes(out.on.ty))
       /\ out.res.val = [kind |-> "Array",
                         elem |-> to_ctypes(out.on.ty).val,
                         len |-> out.on.length]

\* A Sequence of length 0 over a mapped element was translated.
C10_Witness ==
    /\ ToCtypesOn(out, {"Sequence"})
    /\ out.on.length = 0
    /\ HasNative(out.on.ty)

=============================================================================
